---- MODULE Spec2Model ----
(***************************************************************************)
(* Conway's Game of Life on a toroidal grid (src/src/game.rs): the World   *)
(* (grid, width, height), its constructor, its accessors get_row and       *)
(* index, and evolve with get_num_alive_neighbours and Cell::set_state.    *)
(*                                                                         *)
(* width, height, row and col are u32 in the program.  A u32 is modelled   *)
(* as a pair <<hi, lo>> of 16-bit limbs (value hi * 65536 + lo), so that   *)
(* every u32 value can be written and every u32 operation is computed at   *)
(* its real width.  An overflowing u32 operation panics when the build has *)
(* overflow checks (debug profile) and wraps modulo 2^32 when it has none  *)
(* (release profile); overflow_checks is the build's choice.               *)
(***************************************************************************)
EXTENDS Integers, Sequences, FiniteSets, TLC

\* Bounds of the model.
MaxDim == 3
MaxCells == 9
MaxGen == 2
MaxTwinCells == 4

\* One 16-bit limb of a u32 holds 0 .. Limb - 1.
Limb == 65536

Worlds == {1, 2}

Cell == {"Alive", "Dead"}

(***************************************************************************)
(* The state.                                                              *)
(***************************************************************************)
VARIABLES
    overflow_checks, \* the build: TRUE when u32 overflow panics
    constructed,     \* constructed[w]: World w exists
    grid,            \* grid[w], width[w], height[w]: the fields of World w
    width,
    height,
    gen,             \* gen[w]: the generations the contents of World w have
                     \* advanced since new or a literal constructed them
    pc,              \* "idle"; "body", "assign": the place inside evolve;
                     \* "borrowed": a returned &[Cell] or &Cell is alive;
                     \* "panicked": a call has panicked
    cur,             \* the World the running evolve call is on
    new_grid,        \* evolve's locals: new_grid, row, col, num_neighbours
    row,
    col,
    num_neighbours,
    ret              \* the last call and what it returned

vars ==
    <<overflow_checks, constructed, grid, width, height, gen, pc, cur,
      new_grid, row, col, num_neighbours, ret>>

world == <<constructed, grid, width, height, gen>>

locals == <<cur, new_grid, row, col, num_neighbours>>

(***************************************************************************)
(* u32 arithmetic.                                                         *)
(***************************************************************************)
U32(n) == <<n \div Limb, n % Limb>>

Zero == U32(0)

One == U32(1)

u32_lt(x, y) == x[1] < y[1] \/ (x[1] = y[1] /\ x[2] < y[2])

add_overflows(x, y) == x[1] + y[1] + ((x[2] + y[2]) \div Limb) >= Limb

wrapping_add(x, y) ==
    LET lo == x[2] + y[2]
        hi == x[1] + y[1] + (lo \div Limb)
    IN  <<hi % Limb, lo % Limb>>

sub_overflows(x, y) == u32_lt(x, y)

wrapping_sub(x, y) ==
    LET lo == x[2] - y[2]
        hi == x[1] - y[1] - (IF lo < 0 THEN 1 ELSE 0)
    IN  <<(hi + Limb) % Limb, (lo + Limb) % Limb>>

\* a * b for two limbs, as <<carry, low limb>> (no intermediate exceeds 2^25).
mul16(a, b) ==
    LET p1 == a * (b \div 256)
        p0 == a * (b % 256)
        t  == (p1 % 256) * 256 + p0
    IN  <<(p1 \div 256) + (t \div Limb), t % Limb>>

mul_overflows(x, y) ==
    LET ll == mul16(x[2], y[2])
        hl == mul16(x[1], y[2])
        lh == mul16(x[2], y[1])
    IN  \/ (x[1] > 0 /\ y[1] > 0)
        \/ hl[1] > 0
        \/ lh[1] > 0
        \/ ll[1] + hl[2] + lh[2] >= Limb

wrapping_mul(x, y) ==
    LET ll == mul16(x[2], y[2])
        hl == mul16(x[1], y[2])
        lh == mul16(x[2], y[1])
    IN  <<(ll[1] + hl[2] + lh[2]) % Limb, ll[2]>>

\* x % m for m > 0 (a zero divisor panics before the remainder is taken).
RECURSIVE u32_rem(_, _)
u32_rem(x, m) ==
    IF m = Zero THEN x
    ELSE IF m[1] = 0 /\ m[2] < 32768
         THEN <<0, ((x[1] % m[2]) * (Limb % m[2]) + x[2]) % m[2]>>
         ELSE IF u32_lt(x, m) THEN x ELSE u32_rem(wrapping_sub(x, m), m)

\* `as usize` of a u32 compared with a length: idx < n and idx <= n.
usize_lt(x, n) == x[1] < n \div Limb \/ (x[1] = n \div Limb /\ x[2] < n % Limb)

usize_le(x, n) == x[1] < n \div Limb \/ (x[1] = n \div Limb /\ x[2] <= n % Limb)

\* `as usize` of a u32 known to be at most a sequence length.
as_usize(x) == x[1] * Limb + x[2]

(***************************************************************************)
(* Cell.                                                                   *)
(***************************************************************************)
is_alive(c) == c = "Alive"

\* set_state without the arm (Self::Alive, 2) => Self::Alive.
set_state_without_survival_on_two(c, n) ==
    CASE c = "Alive" /\ n = 3 -> "Alive"
      [] c = "Dead" /\ n = 3 -> "Alive"
      [] OTHER -> "Dead"

\* set_state with one more arm, (Self::Dead, 0) => Self::Alive.
set_state_birth_on_zero(c, n) ==
    CASE c = "Alive" /\ n = 3 -> "Alive"
      [] c = "Alive" /\ n = 2 -> "Alive"
      [] c = "Dead" /\ n = 3 -> "Alive"
      [] c = "Dead" /\ n = 0 -> "Alive"
      [] OTHER -> "Dead"

set_state(c, n) ==
    CASE c = "Alive" /\ n = 3 -> "Alive"
      [] c = "Alive" /\ n = 2 -> "Alive"
      [] c = "Dead" /\ n = 3 -> "Alive"
      [] OTHER -> "Dead"

(***************************************************************************)
(* Row: Display writes one symbol per cell.  The text written is modelled  *)
(* as the sequence of its characters.                                      *)
(***************************************************************************)
\* The symbols with '#' and ' ' exchanged.
symbol_exchanged(c) == IF is_alive(c) THEN " " ELSE "#"

\* let symbol = if cell.is_alive() { '#' } else { ' ' };
symbol(c) == IF is_alive(c) THEN "#" ELSE " "

\* The text after the loop has written cells k .. Len(cells) after `sofar`.
RECURSIVE fmt_from(_, _, _)
fmt_from(cells, k, sofar) ==
    IF k > Len(cells) THEN sofar
    ELSE fmt_from(cells, k + 1, Append(sofar, symbol(cells[k])))

fmt(cells) == fmt_from(cells, 1, <<>>)

(***************************************************************************)
(* World: the pure parts of its methods.  g is the grid (a sequence of     *)
(* cells, flat index i at position i + 1), wd and ht are width and height, *)
(* chk tells whether the build checks u32 overflow.                        *)
(***************************************************************************)
\* (width * height) as usize, the length World::new allocates.
new_len(wd, ht) == wrapping_mul(wd, ht)

new_panics(wd, ht, chk) == chk /\ mul_overflows(wd, ht)

\* get_index with row and col exchanged: col * width + row.
get_index_col_major(wd, r, c) == wrapping_add(wrapping_mul(c, wd), r)

get_index(wd, r, c) == wrapping_add(wrapping_mul(r, wd), c)

get_index_panics(wd, r, c, chk) ==
    chk /\ (mul_overflows(r, wd) \/ add_overflows(wrapping_mul(r, wd), c))

get_row_start(wd, r) == wrapping_mul(r, wd)

\* get_row's end without its parentheses: row + 1 * width.
get_row_end_unparenthesised(wd, r) == wrapping_add(r, wrapping_mul(One, wd))

get_row_end(wd, r) == wrapping_mul(wrapping_add(r, One), wd)

\* &self.grid[start..end] panics when start > end or end > len.
get_row_panics(g, wd, r, chk) ==
    \/ chk /\ mul_overflows(r, wd)
    \/ chk /\ add_overflows(r, One)
    \/ chk /\ mul_overflows(wrapping_add(r, One), wd)
    \/ u32_lt(get_row_end(wd, r), get_row_start(wd, r))
    \/ ~usize_le(get_row_end(wd, r), Len(g))

get_row(g, wd, r) ==
    SubSeq(g, as_usize(get_row_start(wd, r)) + 1, as_usize(get_row_end(wd, r)))

index_panics(g, i) == i >= Len(g)

index(g, i) == g[i + 1]

\* The arrays [self.height - 1, 0, 1] and [self.width - 1, 0, 1].
\* The row deltas with height where height - 1 belongs.
delta_rows_without_minus_one(ht) == <<ht, Zero, One>>

delta_rows(ht) == <<wrapping_sub(ht, One), Zero, One>>

\* The column deltas with width where width - 1 belongs.
delta_cols_without_minus_one(wd) == <<wd, Zero, One>>

delta_cols(wd) == <<wrapping_sub(wd, One), Zero, One>>

\* The k-th of the 9 iterations of the two nested loops, k in 1 .. 9.
delta_row_at(ht, k) == delta_rows(ht)[((k - 1) \div 3) + 1]

delta_col_at(wd, k) == delta_cols(wd)[((k - 1) % 3) + 1]

\* if delta_row == 0 && delta_col == 0 { continue; }
\* The skip test left out: the cell itself is counted too.
neighbour_skipped_never(wd, ht, k) == FALSE

neighbour_skipped(wd, ht, k) ==
    delta_row_at(ht, k) = Zero /\ delta_col_at(wd, k) = Zero

n_row(ht, r, k) == u32_rem(wrapping_add(delta_row_at(ht, k), r), ht)

n_col(wd, c, k) == u32_rem(wrapping_add(delta_col_at(wd, k), c), wd)

\* The neighbour's index with its row and column exchanged.
neighbour_idx_transposed(wd, ht, r, c, k) ==
    get_index(wd, n_col(wd, c, k), n_row(ht, r, k))

neighbour_idx(wd, ht, r, c, k) == get_index(wd, n_row(ht, r, k), n_col(wd, c, k))

\* Whether iteration k panics: an overflow under overflow checks, a
\* remainder by zero, or self.grid[idx] out of bounds.
neighbour_panics(g, wd, ht, r, c, k, chk) ==
    /\ ~neighbour_skipped(wd, ht, k)
    /\ \/ chk /\ add_overflows(delta_row_at(ht, k), r)
       \/ ht = Zero
       \/ chk /\ add_overflows(delta_col_at(wd, k), c)
       \/ wd = Zero
       \/ get_index_panics(wd, n_row(ht, r, k), n_col(wd, c, k), chk)
       \/ ~usize_lt(neighbour_idx(wd, ht, r, c, k), Len(g))

get_num_alive_neighbours_panics(g, wd, ht, r, c, chk) ==
    \/ chk /\ sub_overflows(ht, One)
    \/ chk /\ sub_overflows(wd, One)
    \/ \E k \in 1 .. 9 : neighbour_panics(g, wd, ht, r, c, k, chk)

\* count after iterations k .. 9, for a call that does not panic.
RECURSIVE count_from(_, _, _, _, _, _)
count_from(g, wd, ht, r, c, k) ==
    IF k > 9 THEN 0
    ELSE (IF /\ ~neighbour_skipped(wd, ht, k)
             /\ g[as_usize(neighbour_idx(wd, ht, r, c, k)) + 1] = "Alive"
          THEN 1 ELSE 0)
         + count_from(g, wd, ht, r, c, k + 1)

get_num_alive_neighbours(g, wd, ht, r, c) == count_from(g, wd, ht, r, c, 1)

\* World::evolve as one function of the grid, for a grid of wd * ht cells
\* with wd >= 1: the new_grid the loop of lines 93-101 builds from g.
evolve_grid(g, wd, ht) ==
    [i \in 1 .. Len(g) |->
        set_state(g[i],
                  get_num_alive_neighbours(g, wd, ht,
                                           U32((i - 1) \div as_usize(wd)),
                                           U32((i - 1) % as_usize(wd))))]

(***************************************************************************)
(* World::evolve, lines 97-99: what one iteration of the loop body reads   *)
(* and writes.  g is self.grid, ng is new_grid.                            *)
(***************************************************************************)
\* The count added to the count of the iteration before (a counter that is
\* not reset to 0), in u8.
evolve_num_neighbours_not_reset(g, ng, wd, ht, r, c) ==
    (num_neighbours + get_num_alive_neighbours(g, wd, ht, r, c)) % 256

\* The count taken over new_grid, the buffer being written, instead of self.
evolve_num_neighbours_in_place(g, ng, wd, ht, r, c) ==
    get_num_alive_neighbours(ng, wd, ht, r, c)

\* let num_neighbours = self.get_num_alive_neighbours(row, col);
evolve_num_neighbours(g, ng, wd, ht, r, c) ==
    get_num_alive_neighbours(g, wd, ht, r, c)

\* self.grid[idx].set_state(num_neighbours), the value stored in new_grid[idx].
evolve_new_cell(g, ng, idx, n) == set_state(g[as_usize(idx) + 1], n)

evolve_body_panics(g, ng, wd, ht, r, c, chk) ==
    \/ get_index_panics(wd, r, c, chk)
    \/ get_num_alive_neighbours_panics(g, wd, ht, r, c, chk)
    \/ ~usize_lt(get_index(wd, r, c), Len(g))
    \/ ~usize_lt(get_index(wd, r, c), Len(ng))

(***************************************************************************)
(* The inputs the calls are made with.                                     *)
(***************************************************************************)
\* World::new(width, height): every small pair, with 0, and one pair whose
\* u32 product overflows (65536 * 65536 = 2^32).
\* World::new(width, height): small pairs, 65536 x 65536 whose product is
\* 2^32, and 2 x (2^31 + 1) whose product is 2^32 + 2.
NewInputs ==
    {<<U32(a), U32(b)>> : a, b \in 0 .. MaxDim}
        \cup {<<(<<1, 0>>), (<<1, 0>>)>>, <<U32(2), (<<32768, 1>>)>>}

NewAllowed(wd, ht) ==
    \/ mul_overflows(wd, ht)
    \/ as_usize(new_len(wd, ht)) <= MaxCells

\* The pairs the run with two Worlds constructs the first World with.
TwinAllowed(wd, ht) ==
    \/ mul_overflows(wd, ht)
    \/ as_usize(new_len(wd, ht)) <= MaxTwinCells

\* get_row(row): small rows and u32 values whose products with a width wrap:
\* 2^31, 2^31 + 1, 0xAAAAAAAB (the inverse of 3 modulo 2^32), 2^32 - 1.
RowInputs ==
    {U32(n) : n \in 0 .. MaxDim + 2}
        \cup {<<32768, 0>>, <<32768, 1>>, <<43690, 43691>>, <<65535, 65535>>}

\* world[i]
IndexInputs == 0 .. MaxCells + 1

\* The Worlds the tests write as struct literals.
D == "Dead"

A == "Alive"

TestWorlds ==
    { [grid |-> <<D, D, D, A, A, A>>, width |-> U32(3), height |-> U32(2)],
      [grid |-> <<D, D, A, A, D, D, A, D, D>>, width |-> U32(3), height |-> U32(3)],
      [grid |-> <<D, A, D, D, A, D, D, A, D>>, width |-> U32(3), height |-> U32(3)],
      [grid |-> <<D, D, D, D, D, D, D, A, D, D, D, D, A,
                  D, D, D, D, A, D, D, D, D, D, D, D>>,
       width |-> U32(5), height |-> U32(5)] }

(***************************************************************************)
(* The calls.                                                              *)
(***************************************************************************)
NoCall ==
    [op |-> "none", w |-> 1, wd |-> Zero, ht |-> Zero, r |-> Zero, i |-> 0,
     outcome |-> "ok", cells |-> <<>>, text |-> <<>>]

Call(op, w, outcome) == [NoCall EXCEPT !.op = op, !.w = w, !.outcome = outcome]

Init ==
    /\ overflow_checks \in BOOLEAN
    /\ constructed = [w \in Worlds |-> FALSE]
    /\ grid = [w \in Worlds |-> <<>>]
    /\ width = [w \in Worlds |-> Zero]
    /\ height = [w \in Worlds |-> Zero]
    /\ gen = [w \in Worlds |-> 0]
    /\ pc = "idle"
    /\ cur = 1
    /\ new_grid = <<>>
    /\ row = Zero
    /\ col = Zero
    /\ num_neighbours = 0
    /\ ret = NoCall

\* World::new(wd, ht) with the booleans the random source yields.
New(w, wd, ht) ==
    /\ pc = "idle"
    /\ ~constructed[w]
    /\ NewAllowed(wd, ht)
    /\ IF new_panics(wd, ht, overflow_checks)
       THEN /\ ret' = [Call("new", w, "panic") EXCEPT !.wd = wd, !.ht = ht]
            /\ pc' = "panicked"
            /\ UNCHANGED world
       ELSE /\ \E bits \in [1 .. as_usize(new_len(wd, ht)) -> BOOLEAN] :
                 grid' = [grid EXCEPT ![w] =
                            [i \in 1 .. as_usize(new_len(wd, ht)) |->
                                IF bits[i] THEN "Alive" ELSE "Dead"]]
            /\ constructed' = [constructed EXCEPT ![w] = TRUE]
            /\ width' = [width EXCEPT ![w] = wd]
            /\ height' = [height EXCEPT ![w] = ht]
            /\ gen' = [gen EXCEPT ![w] = 0]
            /\ ret' = [Call("new", w, "ok") EXCEPT !.wd = wd, !.ht = ht]
            /\ pc' = "idle"
    /\ UNCHANGED <<overflow_checks, locals>>

\* World { grid, width, height } as the tests write it.
Literal(w, t) ==
    /\ pc = "idle"
    /\ ~constructed[w]
    /\ constructed' = [constructed EXCEPT ![w] = TRUE]
    /\ grid' = [grid EXCEPT ![w] = t.grid]
    /\ width' = [width EXCEPT ![w] = t.width]
    /\ height' = [height EXCEPT ![w] = t.height]
    /\ gen' = [gen EXCEPT ![w] = 0]
    /\ ret' = [Call("literal", w, "ok") EXCEPT !.wd = t.width, !.ht = t.height]
    /\ UNCHANGED <<overflow_checks, pc, locals>>

\* world.get_row(r): the slice it returns borrows the World.
GetRow(w, r) ==
    /\ pc = "idle"
    /\ constructed[w]
    /\ IF get_row_panics(grid[w], width[w], r, overflow_checks)
       THEN /\ ret' = [Call("get_row", w, "panic") EXCEPT !.r = r]
            /\ pc' = "panicked"
       ELSE /\ ret' = [Call("get_row", w, "ok") EXCEPT
                          !.r = r, !.cells = get_row(grid[w], width[w], r)]
            /\ pc' = "borrowed"
    /\ UNCHANGED <<overflow_checks, world, locals>>

\* world[i]: the &Cell it returns borrows the World.
Index(w, i) ==
    /\ pc = "idle"
    /\ constructed[w]
    /\ IF index_panics(grid[w], i)
       THEN /\ ret' = [Call("index", w, "panic") EXCEPT !.i = i]
            /\ pc' = "panicked"
       ELSE /\ ret' = [Call("index", w, "ok") EXCEPT
                          !.i = i, !.cells = <<index(grid[w], i)>>]
            /\ pc' = "borrowed"
    /\ UNCHANGED <<overflow_checks, world, locals>>

\* Row::new(row).to_string() on the slice get_row returned.
Render ==
    /\ pc = "borrowed"
    /\ ret.op = "get_row"
    /\ ret' = [ret EXCEPT !.op = "fmt", !.text = fmt(ret.cells)]
    /\ UNCHANGED <<overflow_checks, world, pc, locals>>

\* The caller drops the borrowed slice or cell.
Release ==
    /\ pc = "borrowed"
    /\ pc' = "idle"
    /\ ret' = NoCall
    /\ UNCHANGED <<overflow_checks, world, locals>>

\* world.evolve(), line 93 and the entry of the two loops.
EvolveBegin(w) ==
    /\ pc = "idle"
    /\ constructed[w]
    /\ gen[w] < MaxGen
    /\ cur' = w
    /\ new_grid' = grid[w]
    /\ row' = Zero
    /\ col' = Zero
    /\ pc' = IF u32_lt(Zero, height[w]) /\ u32_lt(Zero, width[w])
             THEN "body" ELSE "assign"
    /\ ret' = Call("evolve", w, "running")
    /\ UNCHANGED <<overflow_checks, world, num_neighbours>>

\* The loop body storing the new cell in self.grid as well as in new_grid.
EvolveBody_writing_self ==
    /\ pc = "body"
    /\ IF evolve_body_panics(grid[cur], new_grid, width[cur], height[cur],
                             row, col, overflow_checks)
       THEN /\ pc' = "panicked"
            /\ ret' = Call("evolve", cur, "panic")
            /\ new_grid' = <<>>
            /\ UNCHANGED <<row, col, num_neighbours, grid>>
       ELSE LET idx == get_index(width[cur], row, col)
                n == evolve_num_neighbours(grid[cur], new_grid, width[cur],
                                           height[cur], row, col)
                last_col == ~u32_lt(wrapping_add(col, One), width[cur])
                last_row == ~u32_lt(wrapping_add(row, One), height[cur])
            IN  /\ num_neighbours' = n
                /\ new_grid' = [new_grid EXCEPT ![as_usize(idx) + 1] =
                                   evolve_new_cell(grid[cur], new_grid, idx, n)]
                /\ col' = IF last_col THEN Zero ELSE wrapping_add(col, One)
                /\ row' = IF last_col /\ ~last_row
                          THEN wrapping_add(row, One) ELSE row
                /\ pc' = IF last_col /\ last_row THEN "assign" ELSE "body"
                /\ grid' = [grid EXCEPT ![cur] =
                               [grid[cur] EXCEPT ![as_usize(idx) + 1] =
                                   evolve_new_cell(grid[cur], new_grid, idx, n)]]
                /\ UNCHANGED ret
    /\ UNCHANGED <<overflow_checks, constructed, width, height, gen, cur>>

\* One iteration of the loop body, lines 97-99, and the step to the next
\* (row, col) of `for row in 0..height { for col in 0..width`.
EvolveBody ==
    /\ pc = "body"
    /\ IF evolve_body_panics(grid[cur], new_grid, width[cur], height[cur],
                             row, col, overflow_checks)
       THEN /\ pc' = "panicked"
            /\ ret' = Call("evolve", cur, "panic")
            /\ new_grid' = <<>>
            /\ UNCHANGED <<row, col, num_neighbours>>
       ELSE LET idx == get_index(width[cur], row, col)
                n == evolve_num_neighbours(grid[cur], new_grid, width[cur],
                                           height[cur], row, col)
                last_col == ~u32_lt(wrapping_add(col, One), width[cur])
                last_row == ~u32_lt(wrapping_add(row, One), height[cur])
            IN  /\ num_neighbours' = n
                /\ new_grid' = [new_grid EXCEPT ![as_usize(idx) + 1] =
                                   evolve_new_cell(grid[cur], new_grid, idx, n)]
                /\ col' = IF last_col THEN Zero ELSE wrapping_add(col, One)
                /\ row' = IF last_col /\ ~last_row
                          THEN wrapping_add(row, One) ELSE row
                /\ pc' = IF last_col /\ last_row THEN "assign" ELSE "body"
                /\ UNCHANGED ret
    /\ UNCHANGED <<overflow_checks, world, cur>>

\* The assignment of an evolve that also exchanges width and height.
EvolveAssign_exchanging_dimensions ==
    /\ pc = "assign"
    /\ grid' = [grid EXCEPT ![cur] = new_grid]
    /\ gen' = [gen EXCEPT ![cur] = gen[cur] + 1]
    /\ new_grid' = <<>>
    /\ row' = Zero
    /\ col' = Zero
    /\ pc' = "idle"
    /\ ret' = Call("evolve", cur, "ok")
    /\ width' = [width EXCEPT ![cur] = height[cur]]
    /\ height' = [height EXCEPT ![cur] = width[cur]]
    /\ UNCHANGED <<overflow_checks, constructed, cur, num_neighbours>>

\* self.grid = new_grid; line 103, and the return.
EvolveAssign ==
    /\ pc = "assign"
    /\ grid' = [grid EXCEPT ![cur] = new_grid]
    /\ gen' = [gen EXCEPT ![cur] = gen[cur] + 1]
    /\ new_grid' = <<>>
    /\ row' = Zero
    /\ col' = Zero
    /\ pc' = "idle"
    /\ ret' = Call("evolve", cur, "ok")
    /\ UNCHANGED <<overflow_checks, constructed, width, height, cur, num_neighbours>>

\* world.clone(), from #[derive(Clone)]: a second World with the same fields.
Clone(src, dst) ==
    /\ pc = "idle"
    /\ constructed[src]
    /\ ~constructed[dst]
    /\ constructed' = [constructed EXCEPT ![dst] = TRUE]
    /\ grid' = [grid EXCEPT ![dst] = grid[src]]
    /\ width' = [width EXCEPT ![dst] = width[src]]
    /\ height' = [height EXCEPT ![dst] = height[src]]
    /\ gen' = [gen EXCEPT ![dst] = gen[src]]
    /\ ret' = Call("clone", dst, "ok")
    /\ UNCHANGED <<overflow_checks, pc, locals>>

\* One World, every operation.
Next ==
    \/ \E d \in NewInputs : New(1, d[1], d[2])
    \/ \E t \in TestWorlds : Literal(1, t)
    \/ \E r \in RowInputs : GetRow(1, r)
    \/ \E i \in IndexInputs : Index(1, i)
    \/ Render
    \/ Release
    \/ EvolveBegin(1)
    \/ EvolveBody
    \/ EvolveAssign

Spec == Init /\ [][Next]_vars

\* Two Worlds, the second a clone of the first, each evolved on its own.
NextTwin ==
    \/ \E d \in NewInputs : TwinAllowed(d[1], d[2]) /\ New(1, d[1], d[2])
    \/ \E t \in TestWorlds : Literal(1, t)
    \/ Clone(1, 2)
    \/ \E w \in Worlds : EvolveBegin(w)
    \/ EvolveBody
    \/ EvolveAssign

SpecTwin == Init /\ [][NextTwin]_vars

(***************************************************************************)
(* What the claims are stated with.                                        *)
(***************************************************************************)
\* The grid of World w holds exactly width * height cells (the product
\* taken in the integers, not in u32).
GridLenIs(w) ==
    /\ ~mul_overflows(width[w], height[w])
    /\ wrapping_mul(width[w], height[w]) = U32(Len(grid[w]))

Positive(w) == u32_lt(Zero, width[w]) /\ u32_lt(Zero, height[w])

ValidWorld(w) == constructed[w] /\ Positive(w) /\ GridLenIs(w)

\* width and height of a valid World of the model, as integers.
W(w) == as_usize(width[w])

H(w) == as_usize(height[w])

\* Conway's rule as the specification states it.
Rule(c, n) ==
    IF (c = "Alive" /\ n \in {2, 3}) \/ (c = "Dead" /\ n = 3)
    THEN "Alive" ELSE "Dead"

\* The position (1-based) evolve wrote last in new_grid, 0 when none yet.
LastWritten ==
    IF pc = "assign" THEN Len(new_grid)
    ELSE IF pc = "body" THEN as_usize(get_index(width[cur], row, col))
    ELSE 0

\* The 8 offsets of the neighbourhood.
Offsets == {d \in {-1, 0, 1} \X {-1, 0, 1} : d # <<0, 0>>}

\* The number of offsets whose position, wrapped, holds Alive.
EightOffsetCount(w, r, c) ==
    Cardinality({d \in Offsets :
        grid[w][((r + d[1]) % H(w)) * W(w) + ((c + d[2]) % W(w)) + 1] = "Alive"})

BlinkerVertical ==
    [i \in 1 .. 25 |-> IF i - 1 \in {7, 12, 17} THEN "Alive" ELSE "Dead"]

BlinkerHorizontal ==
    [i \in 1 .. 25 |-> IF i - 1 \in {11, 12, 13} THEN "Alive" ELSE "Dead"]

(***************************************************************************)
(* The claims.                                                             *)
(***************************************************************************)
\* C1: when evolve assigns the new grid to a World with width >= 1,
\* height >= 1 and width * height cells, every position row * width + col of
\* the new grid is set_state of the pre-advance cell there and of the count
\* get_num_alive_neighbours takes at (row, col) over the pre-advance grid:
\* nothing written during the call was read.
C1_EvolveReadsPreAdvanceGrid ==
    [][(pc = "assign" /\ ValidWorld(cur)) =>
        \A r \in 0 .. H(cur) - 1 : \A c \in 0 .. W(cur) - 1 :
            grid'[cur][r * W(cur) + c + 1] =
                set_state(grid[cur][r * W(cur) + c + 1],
                          get_num_alive_neighbours(grid[cur], width[cur],
                                                   height[cur], U32(r), U32(c)))]_vars

\* A whole next generation, different from the pre-advance grid and with a
\* live cell, is about to be assigned.
C1_Witness ==
    /\ pc = "assign"
    /\ ValidWorld(cur)
    /\ new_grid # grid[cur]
    /\ \E i \in 1 .. Len(new_grid) : new_grid[i] = "Alive"

\* C2: a World that exists with width >= 1 and height >= 1 holds exactly
\* width * height cells, before and after every evolve call.
C2_LengthIsWidthTimesHeight ==
    \A w \in Worlds : (constructed[w] /\ Positive(w)) => GridLenIs(w)

\* C3: for the 18 pairs of a cell state and a count in 0 .. 8, set_state is
\* Alive exactly for (Alive, 2), (Alive, 3) and (Dead, 3); and the cell evolve
\* wrote last is that rule applied to the pre-advance cell and the count.
C3_SetStateIsTheRule ==
    /\ \A c \in Cell : \A n \in 0 .. 8 : set_state(c, n) = Rule(c, n)
    /\ (ValidWorld(cur) /\ LastWritten > 0) =>
          new_grid[LastWritten] = Rule(grid[cur][LastWritten], num_neighbours)

\* evolve has just kept an Alive cell alive on a count of 2.
C3_Witness ==
    /\ ValidWorld(cur)
    /\ LastWritten > 0
    /\ grid[cur][LastWritten] = "Alive"
    /\ num_neighbours = 2
    /\ new_grid[LastWritten] = "Alive"

\* C4: for every World with width >= 1, height >= 1 and width * height
\* cells, and every (row, col) in range, get_num_alive_neighbours is the
\* number of the 8 offsets (dr, dc) # (0, 0) whose wrapped position holds
\* Alive, each offset counted once.
C4_CountsEightOffsets ==
    \A w \in Worlds : ValidWorld(w) =>
        \A r \in 0 .. H(w) - 1 : \A c \in 0 .. W(w) - 1 :
            get_num_alive_neighbours(grid[w], width[w], height[w], U32(r), U32(c))
                = EightOffsetCount(w, r, c)

\* C5: evolve on the 5x5 grid whose live cells are 7, 12, 17 assigns the
\* grid whose live cells are 11, 12, 13.
C5_BlinkerTurns ==
    [][(/\ pc = "assign"
        /\ width[cur] = U32(5)
        /\ height[cur] = U32(5)
        /\ grid[cur] = BlinkerVertical) => grid'[cur] = BlinkerHorizontal]_vars

\* The 5x5 World of test_evolve after its first evolve call.
C5_Witness ==
    /\ pc = "idle"
    /\ ret.op = "evolve"
    /\ ret.outcome = "ok"
    /\ gen[1] = 1
    /\ width[1] = U32(5)
    /\ height[1] = U32(5)
    /\ grid[1] = BlinkerHorizontal

\* C6: get_row(r) with r < height on a World with width * height cells
\* returns width cells, the k-th being the cell at flat index r * width + k.
C6_GetRowIsTheRow ==
    (/\ ret.op = "get_row"
     /\ ValidWorld(ret.w)
     /\ u32_lt(ret.r, height[ret.w])) =>
        /\ ret.outcome = "ok"
        /\ Len(ret.cells) = W(ret.w)
        /\ \A k \in 0 .. W(ret.w) - 1 :
              ret.cells[k + 1] = grid[ret.w][as_usize(ret.r) * W(ret.w) + k + 1]

\* get_row(1) of test_world_get_row: the second row, three Alive cells.
C6_Witness ==
    /\ pc = "borrowed"
    /\ ret.op = "get_row"
    /\ ret.r = U32(1)
    /\ width[ret.w] = U32(3)
    /\ height[ret.w] = U32(2)
    /\ grid[ret.w] = <<"Dead", "Dead", "Dead", "Alive", "Alive", "Alive">>
    /\ ret.cells = <<"Alive", "Alive", "Alive">>

\* C7: World::new with width = 0 or height = 0 fails: no World is returned.
C7_ZeroDimensionIsRejected ==
    (ret.op = "new" /\ (ret.wd = Zero \/ ret.ht = Zero)) =>
        (ret.outcome = "panic" /\ ~constructed[ret.w])

\* C8: on a World with width >= 1 and height >= 1, get_row(r) with
\* r >= height, for any u32 r, and world[i] with i >= width * height abort.
C8_OutOfRangeAborts ==
    /\ (/\ ret.op = "get_row"
        /\ Positive(ret.w)
        /\ ~u32_lt(ret.r, height[ret.w])) => ret.outcome = "panic"
    /\ (/\ ret.op = "index"
        /\ Positive(ret.w)
        /\ ~mul_overflows(width[ret.w], height[ret.w])
        /\ usize_le(wrapping_mul(width[ret.w], height[ret.w]), ret.i)) =>
            ret.outcome = "panic"

C10_EvolveIsDeterministic ==
    (/\ constructed[1]
     /\ constructed[2]
     /\ pc \in {"idle", "panicked"}
     /\ gen[1] = gen[2]) =>
        /\ grid[1] = grid[2]
        /\ width[1] = width[2]
        /\ height[1] = height[2]

\* A World and its clone have each been evolved twice, and a live cell is left.
C10_Witness ==
    /\ constructed[1]
    /\ constructed[2]
    /\ pc = "idle"
    /\ gen[1] = 2
    /\ gen[2] = 2
    /\ ret.op = "evolve"
    /\ \E i \in 1 .. Len(grid[2]) : grid[2][i] = "Alive"

\* C11: rendering a Row over n cells gives exactly n characters, the k-th
\* '#' when the k-th cell is Alive and ' ' when it is Dead, in order, with
\* nothing between or after them; [Dead, Alive, Dead] renders as " # ".
C11_RowRendersOneSymbolPerCell ==
    ret.op = "fmt" =>
        /\ Len(ret.text) = Len(ret.cells)
        /\ \A k \in 1 .. Len(ret.cells) :
              ret.text[k] = IF ret.cells[k] = "Alive" THEN "#" ELSE " "
        /\ ret.cells = <<"Dead", "Alive", "Dead">> => ret.text = <<" ", "#", " ">>

\* The row [Dead, Alive, Dead] has been rendered.
C11_Witness ==
    /\ ret.op = "fmt"
    /\ ret.cells = <<"Dead", "Alive", "Dead">>
    /\ ret.text = <<" ", "#", " ">>

\* C12: while evolve runs its loop the grid of every World stays what it
\* was; the grid changes once, at the assignment of line 103, to the whole
\* new_grid; and get_row and index return only between evolve calls, so what
\* they show is a whole generation.
C12_GridReplacedOnceAndWhole ==
    [][/\ pc = "body" => grid' = grid
       /\ pc = "assign" =>
             /\ grid'[cur] = new_grid
             /\ gen'[cur] = gen[cur] + 1
             /\ \A w \in Worlds \ {cur} : grid'[w] = grid[w]
       /\ (pc' = "borrowed" /\ pc # "borrowed") =>
             /\ pc = "idle"
             /\ new_grid = <<>>
             /\ grid' = grid]_vars

\* evolve is inside its loop and new_grid already differs from the grid.
C12_Witness ==
    /\ pc = "body"
    /\ ValidWorld(cur)
    /\ LastWritten > 0
    /\ new_grid # grid[cur]

\* Whether World w is the 5x5 World, which only the literal of test_evolve
\* (live cells 7, 12, 17) constructs.
IsBlinkerWorld(w) ==
    constructed[w] /\ width[w] = U32(5) /\ height[w] = U32(5)

\* C13: after k evolve calls the 5x5 World that started with live cells
\* 7, 12, 17 holds that grid when k is even and the grid with live cells
\* 11, 12, 13 when k is odd; and evolve turns the second grid back into the
\* first, so the two alternate for every k.
C13_BlinkerHasPeriodTwo ==
    /\ [](\A w \in Worlds : (IsBlinkerWorld(w) /\ pc # "assign" /\ pc # "body") =>
            grid[w] = IF gen[w] % 2 = 0 THEN BlinkerVertical
                      ELSE BlinkerHorizontal)
    /\ [][(pc = "assign" /\ IsBlinkerWorld(cur) /\ grid[cur] = BlinkerHorizontal)
            => grid'[cur] = BlinkerVertical]_vars

\* The blinker is back at its first grid after two evolve calls.
C13_Witness ==
    /\ pc = "idle"
    /\ IsBlinkerWorld(1)
    /\ gen[1] = 2
    /\ grid[1] = BlinkerVertical
    /\ BlinkerVertical # BlinkerHorizontal

\* C14: no step of any operation changes the width or the height of a
\* World that exists, and no step but the assignment that ends evolve
\* changes a cell of its grid: get_row, index, rendering and the neighbour
\* counts of evolve's loop leave width, height and grid as they were.
C14_DimensionsAndGridAreFramed ==
    [][\A w \in Worlds : constructed[w] =>
          /\ constructed'[w]
          /\ width'[w] = width[w]
          /\ height'[w] = height[w]
          /\ pc # "assign" => grid'[w] = grid[w]]_vars

\* A World that has been evolved and then read through get_row.
C14_Witness ==
    /\ pc = "borrowed"
    /\ ret.op = "get_row"
    /\ gen[ret.w] = 1
    /\ ValidWorld(ret.w)
    /\ width[ret.w] # height[ret.w]

\* The (row, col) pairs in range of World w.
Positions(w) == (0 .. H(w) - 1) \X (0 .. W(w) - 1)

FlatIndex(w, p) == get_index(width[w], U32(p[1]), U32(p[2]))

\* The first and the last row and column of World w, as u32 values.
Corners(w) ==
    {Zero, wrapping_sub(height[w], One)} \X {Zero, wrapping_sub(width[w], One)}

\* C15: on every World with width >= 1 and height >= 1 get_index, over
\* row < height and col < width, computes row * width + col without overflow
\* and gives distinct flat indices for distinct pairs (looked at on the first
\* and last row and column); where the grid has width * height cells its
\* image is all of 0 .. width * height - 1; and evolve's loop starts at flat
\* index 0, moves on by exactly one position at every iteration, changes
\* new_grid at no other position, and ends when all positions are written.
C15_GetIndexIsABijection ==
    /\ [](\A w \in Worlds :
            (constructed[w] /\ Positive(w) /\ pc = "idle"
                 /\ ret.op \in {"new", "literal"}) =>
                /\ \A p \in Corners(w) :
                      ~get_index_panics(width[w], p[1], p[2], TRUE)
                /\ \A p, q \in Corners(w) :
                      p # q => get_index(width[w], p[1], p[2])
                                   # get_index(width[w], q[1], q[2])
                /\ GridLenIs(w) =>
                      /\ \A p, q \in Positions(w) :
                            p # q => FlatIndex(w, p) # FlatIndex(w, q)
                      /\ {FlatIndex(w, p) : p \in Positions(w)}
                            = {U32(i) : i \in 0 .. W(w) * H(w) - 1})
    /\ [][ValidWorld(cur') =>
            /\ (pc = "idle" /\ pc' = "body") => LastWritten' = 0
            /\ pc = "body" =>
                  /\ LastWritten' = LastWritten + 1
                  /\ \A i \in 1 .. Len(new_grid) :
                        i # LastWritten' => new_grid'[i] = new_grid[i]]_vars

\* C16: the count evolve holds is always within 0 .. 8, and on a World with
\* width >= 1, height >= 1 and width * height cells get_num_alive_neighbours
\* returns a value within 0 .. 8 at every position, far below the 255 a u8
\* holds.
C16_NeighbourCountAtMostEight ==
    /\ num_neighbours \in 0 .. 8
    /\ \A w \in Worlds :
          (ValidWorld(w) /\ pc = "idle" /\ ret.op \in {"new", "literal", "evolve"}) =>
              \A p \in Positions(w) :
                  get_num_alive_neighbours(grid[w], width[w], height[w],
                                           U32(p[1]), U32(p[2])) \in 0 .. 8

\* evolve has counted a neighbourhood with more than three live cells.
C16_Witness ==
    /\ pc \in {"body", "assign"}
    /\ ValidWorld(cur)
    /\ num_neighbours > 3

\* The grid g of World w moved by a rows and b columns on the torus: the
\* cell of (r, c) goes to ((r + a) mod height, (c + b) mod width).
Shift(w, g, a, b) ==
    [i \in 1 .. Len(g) |->
        g[((((i - 1) \div W(w)) + H(w) - a) % H(w)) * W(w)
          + ((((i - 1) % W(w)) + W(w) - b) % W(w)) + 1]]

AllDead(g) == \A i \in 1 .. Len(g) : g[i] = "Dead"

\* C18: whenever evolve replaces a grid whose cells are all Dead, the grid
\* it assigns has the same length and all its cells are Dead; so no number
\* of evolve calls brings an Alive cell into an all-Dead grid.
C18_AllDeadIsAbsorbing ==
    [][(pc = "assign" /\ AllDead(grid[cur])) =>
          /\ Len(grid'[cur]) = Len(grid[cur])
          /\ AllDead(grid'[cur])]_vars

\* The second evolve of an all-Dead World of six cells is about to assign.
C18_Witness ==
    /\ pc = "assign"
    /\ ValidWorld(cur)
    /\ Len(grid[cur]) = 6
    /\ AllDead(grid[cur])
    /\ AllDead(new_grid)
    /\ gen[cur] = 1

====
